---- MODULE Spec2Model ----
(***************************************************************************)
(* Model of 364_final_proj_code.ipynb: the text pipeline (simple_tokenizer, *)
(* build_vocab, text_to_sequence, pad_sequence, TweetDataset), the training *)
(* loop train_model and the prediction cell.                                *)
(*                                                                          *)
(* A Python str is a sequence of one-character strings, so a token is a     *)
(* sequence such as <<"a", "b">> and "<pad>" is <<"<","p","a","d",">">>.    *)
(* A Python dict is a record [keys, vals]: keys is the insertion order,     *)
(* vals the mapping.                                                        *)
(***************************************************************************)
EXTENDS Integers, Sequences, FiniteSets, TLC

VARIABLES
  cell,          \* the notebook cell / program point reached
  train_texts,   \* train_df["Text"]
  train_labels,  \* train_df["Label"]
  min_freq,      \* the min_freq argument of the last build_vocab call
  vocab,         \* the notebook's global vocab
  dataset,       \* the TweetDataset object: [texts, labels, vocab, max_len]
  idx,           \* the idx argument of the last __getitem__ call
  item,          \* what that call returned: [seq, label]
  raised,        \* the exception the last call raised, "none" if it returned
  epochs,        \* train_model's epochs argument
  n_train,       \* len(train_loader): the number of training batches
  n_val,         \* len(val_loader): the number of validation batches
  n_test,        \* len(test_dataset): the number of test samples
  epoch,         \* the loop variable of "for epoch in range(epochs)"
  training,      \* model.training: TRUE in training mode, FALSE in evaluation mode
  params,        \* the model's parameters, as the number of optimizer steps applied
  batches,       \* batches the running "for ... in loader" loop has consumed
  train_loss,    \* the running sum of the epoch's training losses
  val_loss,      \* the running sum of the epoch's validation losses
  train_losses,  \* the training loss history
  val_losses,    \* the validation loss history
  all_preds,     \* the predictions container of the prediction cell
  all_outputs,   \* history: the logits model(input_ids) gave for each predicted sample
  pred_ids       \* history: the test-set position of each predicted sample

textVars == <<train_texts, train_labels, min_freq, vocab, dataset, idx, item>>

trainVars == <<epochs, n_train, n_val, n_test, epoch, training, params, batches,
               train_loss, val_loss, train_losses, val_losses,
               all_preds, all_outputs, pred_ids>>

vars == <<cell, raised, textVars, trainVars>>

----------------------------------------------------------------------------
(* Bounds of the model *)

MaxTextLen == 3
MaxTexts == 2
MaxChars == 4
MaxFreq == 2
MaxLen == 3
MaxEpochs == 2
MaxBatches == 2
MaxTest == 3
\* the loaders' batch_size; the notebook passes 32, scaled down so that a test
\* set of MaxTest samples spans several batches and a short last batch
BatchSize == 2

Alphabet == {"a", "B", " "}

Min(a, b) == IF a < b THEN a ELSE b
Max(a, b) == IF a > b THEN a ELSE b

Texts == UNION {[1..n -> Alphabet] : n \in 0..MaxTextLen}

RECURSIVE CorporaOf(_, _)
CorporaOf(n, budget) ==
  IF n = 0 THEN {<<>>}
  ELSE UNION {{<<t>> \o c : c \in CorporaOf(n - 1, budget - Len(t))} :
              t \in {u \in Texts : Len(u) <= budget}}

Corpora == UNION {CorporaOf(n, MaxChars) : n \in 0..MaxTexts}

MinFreqs == 0..MaxFreq
\* a negative max_len is an int the functions accept like any other
MaxLens == (0 - 1)..MaxLen
\* loss.item() of one batch, and one logit of one sample
LossVals == {0, 1}
LogitVals == {0, 1}

----------------------------------------------------------------------------
(* Python str and dict primitives used by the notebook *)

PAD == <<"<", "p", "a", "d", ">">>
UNK == <<"<", "u", "n", "k", ">">>

\* str.lower() on one character
LowerChar(c) ==
  CASE c = "A" -> "a"
    [] c = "B" -> "b"
    [] OTHER -> c

lower(text) == [i \in 1..Len(text) |-> LowerChar(text[i])]

\* the regex class \w
IsWordChar(c) == c \in {"a", "b", "A", "B", "_", "0", "1"}

\* re.findall(r'\w+', s): the maximal runs of word characters, left to right
RECURSIVE findall_w(_, _, _, _)
findall_w(s, i, cur, acc) ==
  IF i > Len(s)
  THEN IF cur = <<>> THEN acc ELSE Append(acc, cur)
  ELSE IF IsWordChar(s[i])
       THEN findall_w(s, i + 1, Append(cur, s[i]), acc)
       ELSE findall_w(s, i + 1, <<>>, IF cur = <<>> THEN acc ELSE Append(acc, cur))

EmptyDict == [keys |-> <<>>, vals |-> <<>>]

DictHas(d, k) == k \in DOMAIN d.vals
DictGet(d, k, default) == IF DictHas(d, k) THEN d.vals[k] ELSE default
DictLen(d) == Len(d.keys)
\* d[k] = v: a new key goes to the end of the insertion order
DictSet(d, k, v) ==
  IF DictHas(d, k)
  THEN [keys |-> d.keys, vals |-> [d.vals EXCEPT ![k] = v]]
  ELSE [keys |-> Append(d.keys, k), vals |-> (k :> v) @@ d.vals]

\* seq[:n] of a Python list
SliceTo(seq, n) ==
  IF n >= 0 THEN SubSeq(seq, 1, Min(n, Len(seq)))
  ELSE SubSeq(seq, 1, Max(0, Len(seq) + n))

\* faulty variant of ListPos: negative positions are rejected instead of wrapping
ListPos_NoWrap(n, i) == IF 0 <= i /\ i < n THEN i + 1 ELSE 0

\* seq[i] of a Python list (or Series.iloc[i]): the position read, 0 for IndexError
ListPos(n, i) ==
  IF 0 <= i /\ i < n THEN i + 1
  ELSE IF i < 0 /\ 0 - n <= i THEN n + i + 1
  ELSE 0

----------------------------------------------------------------------------
(* The notebook's functions *)

simple_tokenizer(text) == findall_w(lower(text), 1, <<>>, <<>>)

\* lines 78-79: the inner counting loop over one text's tokens
RECURSIVE CountTokens(_, _, _)
CountTokens(tokens, i, word_counts) ==
  IF i > Len(tokens) THEN word_counts
  ELSE CountTokens(tokens, i + 1,
         DictSet(word_counts, tokens[i], DictGet(word_counts, tokens[i], 0) + 1))

\* lines 76-79: the counting loop over the texts
RECURSIVE CountTexts(_, _, _)
CountTexts(texts, i, word_counts) ==
  IF i > Len(texts) THEN word_counts
  ELSE CountTexts(texts, i + 1,
         CountTokens(simple_tokenizer(texts[i]), 1, word_counts))

\* faulty variant of Admitted: the threshold itself is excluded
Admitted_Strict(count, mf, token, voc) == count > mf /\ ~DictHas(voc, token)

\* line 81: the admission test
Admitted(count, mf, token, voc) == count >= mf /\ ~DictHas(voc, token)

\* faulty variant of NextIndex: the token's place among the counted tokens, after
\* the two reserved entries, whether or not the tokens before it were admitted
NextIndex_ByPosition(voc, pos) == pos + 1

\* line 82: the index a newly admitted token receives
NextIndex(voc, pos) == DictLen(voc)

\* lines 80-82: the loop over word_counts.items(), in insertion order
RECURSIVE AdmitLoop(_, _, _, _)
AdmitLoop(word_counts, i, mf, voc) ==
  IF i > Len(word_counts.keys) THEN voc
  ELSE LET token == word_counts.keys[i]
           count == word_counts.vals[token]
       IN AdmitLoop(word_counts, i + 1, mf,
            IF Admitted(count, mf, token, voc)
            THEN DictSet(voc, token, NextIndex(voc, i))
            ELSE voc)

build_vocab(texts, mf) ==
  LET vocab0 == DictSet(DictSet(EmptyDict, PAD, 0), UNK, 1)
      word_counts == CountTexts(texts, 1, EmptyDict)
  IN AdmitLoop(word_counts, 1, mf, vocab0)

\* faulty variant of text_to_sequence: an absent token maps to the padding index
text_to_sequence_UnkAsPad(text, voc) ==
  LET tokens == simple_tokenizer(text)
  IN [i \in 1..Len(tokens) |-> DictGet(voc, tokens[i], voc.vals[PAD])]

text_to_sequence(text, voc) ==
  LET tokens == simple_tokenizer(text)
  IN [i \in 1..Len(tokens) |-> DictGet(voc, tokens[i], voc.vals[UNK])]

\* faulty variant of pad_sequence: a long sequence is returned whole
pad_sequence_NoTruncate(sequence, max_length) ==
  IF Len(sequence) < max_length
  THEN sequence \o [i \in 1..(max_length - Len(sequence)) |-> 0]
  ELSE sequence

pad_sequence(sequence, max_length) ==
  IF Len(sequence) < max_length
  THEN sequence \o [i \in 1..(max_length - Len(sequence)) |-> 0]
  ELSE SliceTo(sequence, max_length)

\* TweetDataset.__len__
dataset_len(ds) == Len(ds.texts)

----------------------------------------------------------------------------
(* The notebook's cells as actions *)

NoDataset == [texts |-> <<>>, labels |-> <<>>, vocab |-> EmptyDict, max_len |-> 0]
NoItem == [seq |-> <<>>, label |-> 0]

\* the labels column after label_mapping: one of the two classes per row
LabelsFor(texts) == [i \in 1..Len(texts) |-> i % 2]

TrainIdle ==
  /\ epochs = 0 /\ n_train = 0 /\ n_val = 0 /\ n_test = 0
  /\ epoch = 0 /\ training = TRUE /\ params = 0 /\ batches = 0
  /\ train_loss = 0 /\ val_loss = 0
  /\ train_losses = <<>> /\ val_losses = <<>>
  /\ all_preds = <<>> /\ all_outputs = <<>> /\ pred_ids = <<>>

InitText ==
  /\ cell = "loaded"
  /\ train_texts \in Corpora
  /\ train_labels = LabelsFor(train_texts)
  /\ min_freq = 0
  /\ vocab = EmptyDict
  /\ dataset = NoDataset
  /\ idx = 0
  /\ item = NoItem
  /\ raised = "none"
  /\ TrainIdle

\* vocab = build_vocab(train_df["Text"], min_freq)
BuildVocab ==
  /\ cell = "loaded"
  /\ \E mf \in MinFreqs :
       /\ min_freq' = mf
       /\ vocab' = build_vocab(train_texts, mf)
  /\ cell' = "vocab"
  /\ UNCHANGED <<train_texts, train_labels, dataset, idx, item, raised, trainVars>>

\* train_dataset = TweetDataset(train_texts, train_labels, vocab, max_len)
CreateDataset ==
  /\ cell = "vocab"
  /\ \E ml \in MaxLens :
       dataset' = [texts |-> train_texts, labels |-> train_labels,
                   vocab |-> vocab, max_len |-> ml]
  /\ cell' = "dataset"
  /\ UNCHANGED <<train_texts, train_labels, min_freq, vocab, idx, item, raised, trainVars>>

\* train_dataset[i]
GetItem ==
  /\ cell \in {"dataset", "item"}
  /\ \E i \in (0 - dataset_len(dataset) - 1)..dataset_len(dataset) :
       LET p == ListPos(Len(dataset.texts), i)
           q == ListPos(Len(dataset.labels), i)
       IN /\ idx' = i
          /\ IF p = 0 \/ q = 0
             THEN /\ raised' = "IndexError"
                  /\ item' = NoItem
             ELSE /\ raised' = "none"
                  /\ item' = [seq |-> pad_sequence(text_to_sequence(dataset.texts[p], dataset.vocab),
                                                   dataset.max_len),
                              label |-> dataset.labels[q]]
  /\ cell' = "item"
  /\ UNCHANGED <<train_texts, train_labels, min_freq, vocab, dataset, trainVars>>

NextText == BuildVocab \/ CreateDataset \/ GetItem

SpecText == InitText /\ [][NextText]_vars

----------------------------------------------------------------------------
(* train_model and the prediction cell *)

TextIdle ==
  /\ train_texts = <<>> /\ train_labels = <<>> /\ min_freq = 0
  /\ vocab = EmptyDict /\ dataset = NoDataset /\ idx = 0 /\ item = NoItem

\* optimizer.step(): the parameters become the next parameters
OptimizerStep(p) == p + 1

\* train_loss / len(train_loader): the exact quotient, kept as the pair
Mean(total, n) == [total |-> total, n |-> n]

\* faulty variant of ArgMax: of two equal logits the last one wins
ArgMax_LastMax(logits) == IF logits[2] >= logits[1] THEN 1 ELSE 0

\* torch.argmax over the two logits of one sample: the first maximal index
ArgMax(logits) == IF logits[2] > logits[1] THEN 1 ELSE 0

\* len(test_loader) with batch_size BatchSize and drop_last left False
NumBatches(n) == (n + BatchSize - 1) \div BatchSize

\* the dataset positions of the k-th batch (k from 0) of a loader that does not shuffle
BatchIds(n, k) ==
  [i \in 1..Min(BatchSize, n - k * BatchSize) |-> k * BatchSize + i]

\* the state on entry to train_model: a freshly built model is in training mode
InitTrain ==
  /\ cell = "epoch_top"
  /\ raised = "none"
  /\ TextIdle
  /\ epochs \in 0..MaxEpochs
  /\ n_train \in 0..MaxBatches
  /\ n_val \in 0..MaxBatches
  /\ n_test \in 0..MaxTest
  /\ epoch = 0 /\ training = TRUE /\ params = 0 /\ batches = 0
  /\ train_loss = 0 /\ val_loss = 0
  /\ train_losses = <<>> /\ val_losses = <<>>
  /\ all_preds = <<>> /\ all_outputs = <<>> /\ pred_ids = <<>>

\* lines 241-243: the next round of "for epoch in range(epochs)" starts
EpochBegin ==
  /\ cell = "epoch_top"
  /\ epoch < epochs
  /\ training' = TRUE
  /\ train_loss' = 0
  /\ batches' = 0
  /\ cell' = "train_loop"
  /\ UNCHANGED <<raised, textVars, epochs, n_train, n_val, n_test, epoch, params,
                 val_loss, train_losses, val_losses, all_preds, all_outputs, pred_ids>>

\* lines 244-250: one training batch
TrainBatch ==
  /\ cell = "train_loop"
  /\ batches < n_train
  /\ \E loss \in LossVals : train_loss' = train_loss + loss
  /\ params' = OptimizerStep(params)
  /\ batches' = batches + 1
  /\ UNCHANGED <<cell, raised, textVars, epochs, n_train, n_val, n_test, epoch, training,
                 val_loss, train_losses, val_losses, all_preds, all_outputs, pred_ids>>

\* faulty variant of TrainEnd: model.eval() is left out
TrainEnd_NoEval ==
  /\ cell = "train_loop"
  /\ batches = n_train
  /\ IF n_train = 0
     THEN /\ raised' = "ZeroDivisionError"
          /\ cell' = "raised"
          /\ UNCHANGED <<train_losses, val_loss, batches>>
     ELSE /\ train_losses' = Append(train_losses, Mean(train_loss, n_train))
          /\ val_loss' = 0
          /\ batches' = 0
          /\ cell' = "val_loop"
          /\ UNCHANGED raised
  /\ UNCHANGED <<textVars, epochs, n_train, n_val, n_test, epoch, params, training,
                 train_loss, val_losses, all_preds, all_outputs, pred_ids>>

\* lines 251-257: the training pass is over; the mean is recorded and validation set up
TrainEnd ==
  /\ cell = "train_loop"
  /\ batches = n_train
  /\ IF n_train = 0
     THEN /\ raised' = "ZeroDivisionError"
          /\ cell' = "raised"
          /\ UNCHANGED <<train_losses, training, val_loss, batches>>
     ELSE /\ train_losses' = Append(train_losses, Mean(train_loss, n_train))
          /\ training' = FALSE
          /\ val_loss' = 0
          /\ batches' = 0
          /\ cell' = "val_loop"
          /\ UNCHANGED raised
  /\ UNCHANGED <<textVars, epochs, n_train, n_val, n_test, epoch, params,
                 train_loss, val_losses, all_preds, all_outputs, pred_ids>>

\* faulty variant of ValBatch: the validation batch also steps the optimizer
ValBatch_Steps ==
  /\ cell = "val_loop"
  /\ batches < n_val
  /\ \E loss \in LossVals : val_loss' = val_loss + loss
  /\ params' = OptimizerStep(params)
  /\ batches' = batches + 1
  /\ UNCHANGED <<cell, raised, textVars, epochs, n_train, n_val, n_test, epoch, training,
                 train_loss, train_losses, val_losses, all_preds, all_outputs, pred_ids>>

\* lines 258-262: one validation batch, under torch.no_grad()
ValBatch ==
  /\ cell = "val_loop"
  /\ batches < n_val
  /\ \E loss \in LossVals : val_loss' = val_loss + loss
  /\ batches' = batches + 1
  /\ UNCHANGED <<cell, raised, textVars, epochs, n_train, n_val, n_test, epoch, training,
                 params, train_loss, train_losses, val_losses,
                 all_preds, all_outputs, pred_ids>>

\* faulty variant of ValEnd: the history is overwritten with the newest mean
ValEnd_Overwrite ==
  /\ cell = "val_loop"
  /\ batches = n_val
  /\ IF n_val = 0
     THEN /\ raised' = "ZeroDivisionError"
          /\ cell' = "raised"
          /\ UNCHANGED <<val_losses, epoch>>
     ELSE /\ val_losses' = <<Mean(val_loss, n_val)>>
          /\ epoch' = epoch + 1
          /\ cell' = "epoch_top"
          /\ UNCHANGED raised
  /\ UNCHANGED <<textVars, epochs, n_train, n_val, n_test, training, params, batches,
                 train_loss, val_loss, train_losses, all_preds, all_outputs, pred_ids>>

\* lines 263-265: the validation pass is over; the mean is recorded, the round ends
ValEnd ==
  /\ cell = "val_loop"
  /\ batches = n_val
  /\ IF n_val = 0
     THEN /\ raised' = "ZeroDivisionError"
          /\ cell' = "raised"
          /\ UNCHANGED <<val_losses, epoch>>
     ELSE /\ val_losses' = Append(val_losses, Mean(val_loss, n_val))
          /\ epoch' = epoch + 1
          /\ cell' = "epoch_top"
          /\ UNCHANGED raised
  /\ UNCHANGED <<textVars, epochs, n_train, n_val, n_test, training, params, batches,
                 train_loss, val_loss, train_losses, all_preds, all_outputs, pred_ids>>

\* line 268: range(epochs) is exhausted, train_model returns the two histories
Return ==
  /\ cell = "epoch_top"
  /\ epoch >= epochs
  /\ cell' = "returned"
  /\ UNCHANGED <<raised, textVars, trainVars>>

\* lines 497-500: model.eval(); all_preds = []
PredictBegin ==
  /\ cell = "returned"
  /\ training' = FALSE
  /\ all_preds' = <<>>
  /\ batches' = 0
  /\ cell' = "predict_loop"
  /\ UNCHANGED <<raised, textVars, epochs, n_train, n_val, n_test, epoch, params,
                 train_loss, val_loss, train_losses, val_losses, all_outputs, pred_ids>>

\* lines 503-507: one batch of the test loader
PredictBatch ==
  /\ cell = "predict_loop"
  /\ batches < NumBatches(n_test)
  /\ LET ids == BatchIds(n_test, batches)
     IN \E outputs \in [1..Len(ids) -> [1..2 -> LogitVals]] :
          LET preds == [i \in 1..Len(ids) |-> ArgMax(outputs[i])]
          IN /\ all_preds' = all_preds \o preds
             /\ all_outputs' = all_outputs \o outputs
             /\ pred_ids' = pred_ids \o ids
  /\ batches' = batches + 1
  /\ UNCHANGED <<cell, raised, textVars, epochs, n_train, n_val, n_test, epoch, training,
                 params, train_loss, val_loss, train_losses, val_losses>>

\* line 510: the loader is exhausted
PredictEnd ==
  /\ cell = "predict_loop"
  /\ batches = NumBatches(n_test)
  /\ cell' = "predicted"
  /\ UNCHANGED <<raised, textVars, trainVars>>

NextTrain ==
  \/ EpochBegin \/ TrainBatch \/ TrainEnd \/ ValBatch \/ ValEnd \/ Return
  \/ PredictBegin \/ PredictBatch \/ PredictEnd

SpecTrain == InitTrain /\ [][NextTrain]_vars

----------------------------------------------------------------------------
(* Properties *)

\* the tokens of a whole collection, in the order the texts give them
RECURSIVE AllTokens(_)
AllTokens(texts) ==
  IF texts = <<>> THEN <<>>
  ELSE simple_tokenizer(Head(texts)) \o AllTokens(Tail(texts))

Count(toks, t) == Cardinality({i \in DOMAIN toks : toks[i] = t})
FirstPos(toks, t) == CHOOSE i \in DOMAIN toks :
                       toks[i] = t /\ \A j \in 1..(i - 1) : toks[j] # t
TokenSet(toks) == {toks[i] : i \in DOMAIN toks}
IsPrefix(s, t) == Len(s) <= Len(t) /\ SubSeq(t, 1, Len(s)) = s

Size == dataset_len(dataset)
Retrieved == cell = "item" /\ raised = "none"
\* the text the last successful __getitem__ read
RetrievedText == dataset.texts[IF idx >= 0 THEN idx + 1 ELSE Size + idx + 1]
AfterTrain == cell \in {"returned", "predict_loop", "predicted"}

\* C1 as stated: whatever max_len is, the sequence __getitem__ returns has
\* exactly max_len entries.
C1_LengthAnyMaxLen ==
  Retrieved => Len(item.seq) = dataset.max_len

\* C1, amended: for every max_len >= 0 the sequence __getitem__ returns
\* (text_to_sequence, then pad_sequence) has exactly max_len entries.
C1_LengthNonNegMaxLen ==
  (Retrieved /\ dataset.max_len >= 0) => Len(item.seq) = dataset.max_len

\* a text with more tokens than max_len >= 1 was retrieved, cut to max_len
C1_Witness ==
  /\ Retrieved
  /\ dataset.max_len >= 1
  /\ Len(simple_tokenizer(RetrievedText)) > dataset.max_len
  /\ Len(item.seq) = dataset.max_len

\* C2: the vocabulary build_vocab returns maps <pad> to 0 and <unk> to 1, its
\* indices are exactly 0..size-1, no two tokens share an index, and an empty
\* collection gives the two reserved entries alone.
C2_VocabIndices ==
  cell # "loaded" =>
    LET V == vocab.vals
    IN /\ PAD \in DOMAIN V /\ V[PAD] = 0
       /\ UNK \in DOMAIN V /\ V[UNK] = 1
       /\ {V[k] : k \in DOMAIN V} = 0..(Cardinality(DOMAIN V) - 1)
       /\ \A j, k \in DOMAIN V : V[j] = V[k] => j = k
       /\ DictLen(vocab) = Cardinality(DOMAIN V)
       /\ (train_texts = <<>> => DOMAIN V = {PAD, UNK})

\* a vocabulary in which an admitted token was first seen after a rejected one
C2_Witness ==
  /\ cell = "vocab"
  /\ LET toks == AllTokens(train_texts)
     IN \E t, u \in TokenSet(toks) :
          /\ DictHas(vocab, t)
          /\ ~DictHas(vocab, u)
          /\ FirstPos(toks, u) < FirstPos(toks, t)

\* C3: a corpus token is in the vocabulary iff its count over the whole
\* collection is >= min_freq, and the admitted tokens hold the indices 2, 3, ...
\* in the order of their first occurrence in the corpus.
C3_AdmissionAndOrder ==
  cell # "loaded" =>
    LET toks == AllTokens(train_texts)
        A == {t \in TokenSet(toks) : Count(toks, t) >= min_freq}
    IN /\ DOMAIN vocab.vals \ {PAD, UNK} = A
       /\ \A t \in A :
            vocab.vals[t] = 2 + Cardinality({u \in A : FirstPos(toks, u) < FirstPos(toks, t)})

\* min_freq = 2 admitted a token seen exactly twice and rejected one seen once
C3_Witness ==
  /\ cell = "vocab"
  /\ min_freq = 2
  /\ LET toks == AllTokens(train_texts)
     IN \E t, u \in TokenSet(toks) :
          /\ Count(toks, t) = 2 /\ DictHas(vocab, t)
          /\ Count(toks, u) = 1 /\ ~DictHas(vocab, u)

\* C4: with k tokens in the text, position i < min(k, max_len) of the encoding
\* holds the i-th token's index, or 1 when the vocabulary lacks the token;
\* positions k <= i < max_len hold 0; and when k > max_len nothing follows the
\* first max_len tokens.
C4_EncodedContent ==
  Retrieved =>
    LET toks == simple_tokenizer(RetrievedText)
        k == Len(toks)
        ml == dataset.max_len
        V == dataset.vocab.vals
    IN /\ \A i \in 1..ml :
            /\ i <= Len(item.seq)
            /\ item.seq[i] = IF i <= k
                             THEN (IF toks[i] \in DOMAIN V THEN V[toks[i]] ELSE 1)
                             ELSE 0
       /\ (k > ml /\ ml >= 0 => Len(item.seq) = ml)

\* an encoding with a known token, an unknown token and padding
C4_Witness ==
  /\ Retrieved
  /\ LET toks == simple_tokenizer(RetrievedText)
     IN /\ Len(toks) = 2
        /\ dataset.max_len = 3
        /\ DictHas(dataset.vocab, toks[1])
        /\ ~DictHas(dataset.vocab, toks[2])
        /\ item.seq = <<2, 1, 0>>

\* C5: both histories have n entries once the n-th epoch is complete, a step
\* only ever appends one entry to a history, and train_model returns after
\* exactly epochs rounds with two histories of length epochs.
C5_Histories ==
  /\ [](/\ (cell = "epoch_top" \/ AfterTrain) =>
             (Len(train_losses) = epoch /\ Len(val_losses) = epoch)
        /\ AfterTrain =>
             (epoch = epochs /\ Len(train_losses) = epochs /\ Len(val_losses) = epochs))
  /\ [][/\ IsPrefix(train_losses, train_losses')
        /\ Len(train_losses') <= Len(train_losses) + 1
        /\ IsPrefix(val_losses, val_losses')
        /\ Len(val_losses') <= Len(val_losses) + 1]_vars

\* train_model returned after two epochs whose means differ
C5_Witness ==
  /\ cell = "returned"
  /\ epochs = 2
  /\ Len(train_losses) = 2 /\ train_losses[1] # train_losses[2]
  /\ Len(val_losses) = 2 /\ val_losses[1] # val_losses[2]

\* C6: with an empty training or validation source and at least one epoch to
\* run, train_model ends in the "no data" error: it neither returns nor ends in
\* another error.
C6_NoDataError ==
  ((n_train = 0 \/ n_val = 0) /\ epochs >= 1 /\ cell \in {"raised", "returned"}) =>
    raised = "NoDataError"

\* C7 as stated: the size is the number of texts, and every index outside
\* [0, size) raises the out-of-range error.
C7_OutsideZeroToSize ==
  /\ cell \in {"dataset", "item"} => Size = Len(train_texts)
  /\ (cell = "item" /\ ~(0 <= idx /\ idx < Size)) => raised = "IndexError"

\* C7, amended: the size is the number of texts; an index raises the
\* out-of-range error iff it is outside [-size, size), and an index in
\* [-size, 0) returns the sample at position size + idx.
C7_OutsideMinusSizeToSize ==
  /\ cell \in {"dataset", "item"} => Size = Len(train_texts)
  /\ cell = "item" =>
       (raised = "IndexError" <=> ~(0 - Size <= idx /\ idx < Size))
  /\ (Retrieved /\ idx < 0) =>
       /\ item.label = dataset.labels[Size + idx + 1]
       /\ item.seq = pad_sequence(text_to_sequence(dataset.texts[Size + idx + 1],
                                                   dataset.vocab), dataset.max_len)

\* a dataset of two texts refused the index 2
C7_Witness ==
  /\ cell = "item"
  /\ Size = 2
  /\ idx = Size
  /\ raised = "IndexError"

\* C8: the predictions follow the test set's order, one per sample; each is 0
\* or 1 and is the first index at which the sample's logits are maximal; when
\* the loader is exhausted there are as many predictions as samples.
C8_Predictions ==
  cell \in {"predict_loop", "predicted"} =>
    /\ Len(all_preds) = Len(pred_ids)
    /\ Len(all_preds) = Len(all_outputs)
    /\ \A i \in 1..Len(all_preds) :
         /\ pred_ids[i] = i
         /\ all_preds[i] \in {0, 1}
         /\ \A c \in 1..2 : all_outputs[i][all_preds[i] + 1] >= all_outputs[i][c]
         /\ \A c \in 1..all_preds[i] : all_outputs[i][c] < all_outputs[i][all_preds[i] + 1]
    /\ cell = "predicted" => Len(all_preds) = n_test

\* three samples over two batches were predicted, one of them with equal logits
\* and one with label 1
C8_Witness ==
  /\ cell = "predicted"
  /\ n_test = 3
  /\ Len(all_preds) = 3
  /\ \E i \in 1..3 : all_outputs[i][1] = all_outputs[i][2] /\ all_preds[i] = 0
  /\ \E i \in 1..3 : all_preds[i] = 1

\* C9: a step changes the parameters only if it is a training batch of
\* train_model, and no step of a validation pass, of the return or of the
\* prediction cell changes them.
C9_ParamsFrame ==
  [][/\ params' # params =>
          (cell = "train_loop" /\ batches < n_train /\ cell' = "train_loop")
     /\ (cell = "val_loop" \/ AfterTrain) => params' = params]_vars

\* training, validation and prediction all ran and the parameters are the ones
\* the training batches left
C9_Witness ==
  /\ cell = "predicted"
  /\ epochs = 2 /\ n_train = 2 /\ n_val = 2 /\ n_test = 3
  /\ params = epochs * n_train

\* C10: in every epoch validation runs only once every training batch of that
\* epoch is done and its mean recorded; the model is in training mode in the
\* training pass and in evaluation mode in the validation pass; and after at
\* least one epoch train_model returns with the model in evaluation mode.
C10_PassOrderAndMode ==
  /\ cell = "train_loop" =>
       /\ training
       /\ params = epoch * n_train + batches
       /\ Len(train_losses) = epoch /\ Len(val_losses) = epoch
  /\ cell = "val_loop" =>
       /\ ~training
       /\ params = (epoch + 1) * n_train
       /\ Len(train_losses) = epoch + 1 /\ Len(val_losses) = epoch
  /\ (cell = "returned" /\ epochs >= 1) => ~training

\* the second epoch's validation pass has consumed both of its batches
C10_Witness ==
  /\ cell = "val_loop"
  /\ epoch = 1
  /\ n_train = 2 /\ n_val = 2
  /\ batches = n_val
  /\ ~training

====
